---- MODULE Spec2Model ----
(***************************************************************************)
(* State-machine model of the two Streamlit scripts of st_naversearch:     *)
(*   src/universal_dashboard.py  (live mode: one keyword, three API calls) *)
(*   src/dashboard.py            (batch mode: pre-collected CSV corpus)    *)
(* A Streamlit script is re-executed top to bottom on every user           *)
(* interaction; one such execution is a "run" (a request).                 *)
(*                                                                         *)
(* Note on src/universal_dashboard.py: lines 75-77 are a second `else:`    *)
(* branch after the `else:` of line 72, a duplicate of lines 72-74 that    *)
(* no control flow can reach.  The model follows lines 61-74 and 78-80.    *)
(***************************************************************************)
EXTENDS Integers, Sequences, FiniteSets

\* ------------------------------------------------------------------------
\* Bounds of the model
\* ------------------------------------------------------------------------
MaxKwLen == 2      \* longest keyword typed into the live text input
MaxRows  == 2      \* most data rows in a trend payload / trend CSV
MaxItems == 1      \* most items in a blog / shopping search response
MaxRuns  == 3      \* script runs of the batch dashboard in one process

\* ------------------------------------------------------------------------
\* Python values
\* ------------------------------------------------------------------------
NoneStr == "<None>"                 \* Python None where a str is expected
None    == [tag |-> "None"]         \* Python None where a DataFrame is expected

\* `not x` for x a str or None
Falsy(x) == x \in {NoneStr, ""}

Chars      == {" ", "a"}
Whitespace == {" "}

RECURSIVE LStrip(_)
LStrip(s) == IF s = <<>> THEN s
             ELSE IF Head(s) \in Whitespace THEN LStrip(Tail(s)) ELSE s

RECURSIVE RStrip(_)
RStrip(s) == IF s = <<>> THEN s
             ELSE IF s[Len(s)] \in Whitespace
                  THEN RStrip(SubSeq(s, 1, Len(s) - 1)) ELSE s

\* str.strip()
Strip(s) == RStrip(LStrip(s))

SeqsUpTo(S, n) == UNION {[1..k -> S] : k \in 0..n}

Keywords == SeqsUpTo(Chars, MaxKwLen)

\* calendar days of 2025 as [month, day]
Dates == {[month |-> 1, day |-> 9], [month |-> 1, day |-> 10]}
Ratios == {7}

DateLeq(a, b) == a.month < b.month \/ (a.month = b.month /\ a.day <= b.day)

Row     == [period : Dates, ratio : Ratios]
RowSeqs == SeqsUpTo(Row, MaxRows)

\* pandas.DataFrame: its columns and its rows
DataFrame(cols, rows) == [tag |-> "df", columns |-> cols, rows |-> rows]

\* pd.DataFrame(list_of_dicts): the columns are the keys of the dicts, so an
\* empty list gives a frame with no columns at all
FrameOfRecords(rows) ==
    DataFrame(IF rows = <<>> THEN {} ELSE {"period", "ratio"}, rows)

\* ========================================================================
\* Live mode: src/universal_dashboard.py
\* ========================================================================
VARIABLES
    secrets,         \* st.secrets: [file, id, secret]
    environ,         \* os.environ: [id, secret]
    CLIENT_ID,       \* module global, set on every run (line 26)
    CLIENT_SECRET,   \* module global, set on every run (line 26)
    search_keyword,  \* value of the sidebar text input (line 120)
    livePc,          \* position of the current run
    trend_df,        \* result of fetch_search_trend (line 128)
    blog_df,         \* result of fetch_blog_search (line 129)
    shop_df,         \* result of fetch_shopping_search (line 130)
    netlog,          \* network events of the current run, in order
    bodies,          \* request bodies / params built in the current run
    responses,       \* the response each capability received in this run
    shown            \* what the current run has put on the page, in order

liveVars == <<secrets, environ, CLIENT_ID, CLIENT_SECRET, search_keyword,
              livePc, trend_df, blog_df, shop_df, netlog, bodies, responses,
              shown>>

\* state of src/dashboard.py
VARIABLES
    corpus,            \* the files of data/: [trend, blog, shop], by keyword
    cache,             \* st.cache_data entry of load_data (process-wide)
    reads,             \* pd.read_csv calls so far, per corpus file
    runs,              \* script runs started so far
    session,           \* widgets the session has rendered before
    batchPc,           \* position of the current run
    loadRan,           \* the body of load_data ran in the current run
    checkedNow,        \* files tested with os.path.exists in the current run
    data,              \* trend_data, blog_data, shop_data (line 54)
    selected_keywords, \* value of the multiselect (line 59)
    detail_kw,         \* value of the selectbox (line 148)
    page,              \* what the current run has put on the page, in order
    exc                \* the exception that ended the current run, if any

batchVars == <<corpus, cache, reads, runs, session, batchPc, loadRan,
               checkedNow, data, selected_keywords, detail_kw, page, exc>>

vars == <<liveVars, batchVars>>

\* ------------------------------------------------------------------------
\* The corpus of the batch dashboard (src/dashboard.py)
\* ------------------------------------------------------------------------
\* the keyword list of load_data, cut to its first two entries
keywords == <<"omega3", "lutein">>

KwSet == {keywords[i] : i \in 1..Len(keywords)}
Kinds == {"trend", "blog", "shop"}
Files == Kinds \X KwSet

NoFile == [exists |-> FALSE]
CsvFile(cols, rows) == [exists |-> TRUE, columns |-> cols, rows |-> rows]

\* a trend CSV is absent, or complete (with any rows, or the header line
\* alone), or lacks one of its two required columns (shown without rows:
\* what the script does with such a file does not depend on them)
TrendFiles ==
    {NoFile}
    \cup {CsvFile({"period", "ratio"}, r) : r \in RowSeqs}
    \cup {CsvFile({"ratio"}, <<>>), CsvFile({"period"}, <<>>)}

SearchFiles == {NoFile, CsvFile({"title"}, <<"item">>)}

Corpora == [trend : [KwSet -> TrendFiles],
            blog  : [KwSet -> SearchFiles],
            shop  : [KwSet -> SearchFiles]]

NoCache == [tag |-> "nocache"]
NoData  == [tag |-> "nodata"]
NoExc   == "none"

EmptyCorpus == [trend |-> [k \in KwSet |-> NoFile],
                blog  |-> [k \in KwSet |-> NoFile],
                shop  |-> [k \in KwSet |-> NoFile]]

CredVals == {NoneStr, "", "key"}

\* st.secrets: file = FALSE is a missing secrets.toml (any access raises);
\* a field equal to NoneStr is a key that is not in the file
SecretStores == [file : BOOLEAN, id : CredVals, secret : CredVals]
Environs     == [id : CredVals, secret : CredVals]

\* get_naver_credentials: the secrets store first; any exception there
\* (no file, or NAVER_CLIENT_SECRET missing: KeyError) is swallowed and the
\* process environment is read instead
get_naver_credentials(sec, env) ==
    IF sec.file /\ sec.id # NoneStr /\ sec.secret # NoneStr
    THEN <<sec.id, sec.secret>>
    ELSE <<env.id, env.secret>>

\* the credential gate of the script
CredentialsMissing_and(id, secret) == Falsy(id) /\ Falsy(secret)
CredentialsMissing(id, secret) == Falsy(id) \/ Falsy(secret)

\* `if not keyword or not keyword.strip()`
BlankKeyword(kw) == kw = <<>> \/ Strip(kw) = <<>>

Capabilities == {"trend", "blog", "shop"}

NoResponse == [kind |-> "none"]

Statuses   == {200, 201, 500}
ErrorTexts == {"body"}
ExcDescs   == {"timeout"}

\* a requests call either raises or returns a response.  For status 200 the
\* JSON document is either undecodable/ill-shaped (valid = FALSE) or holds
\* `results`, a list of result objects, each given by its `data` rows
\* (an absent `results` key behaves as an empty list under data.get)
TrendJson == {[valid |-> FALSE]}
             \cup {[valid |-> TRUE, results |-> <<>>]}
             \cup {[valid |-> TRUE, results |-> <<d>>] : d \in RowSeqs}

Exceptions == {[kind |-> "exception", desc |-> e] : e \in ExcDescs}

HttpErrors == {[kind |-> "http", status |-> s, text |-> t] :
                  s \in Statuses \ {200}, t \in ErrorTexts}

TrendResponses == Exceptions \cup HttpErrors
                  \cup {[kind |-> "http", status |-> 200, text |-> "ok", json |-> j] :
                           j \in TrendJson}

ItemSeqs == SeqsUpTo({"item"}, MaxItems)

\* for the search calls `items` is read with ['items']: a missing key raises
SearchJson == {[valid |-> FALSE]} \cup {[valid |-> TRUE, items |-> i] : i \in ItemSeqs}

SearchResponses == Exceptions \cup HttpErrors
                   \cup {[kind |-> "http", status |-> 200, text |-> "ok", json |-> j] :
                            j \in SearchJson}

ErrorMsg(cap, status, text) ==
    [kind |-> "error", cap |-> cap, status |-> status, text |-> text]
ExcMsg(cap, desc) ==
    [kind |-> "error", cap |-> cap, exception |-> desc]

\* fetch_search_trend from the response on: the value returned and the
\* messages written with st.error
TrendOutcome(resp) ==
    IF resp.kind = "exception"
    THEN [df |-> None, errors |-> <<ExcMsg("trend", resp.desc)>>]
    ELSE IF resp.status # 200
    THEN [df |-> None, errors |-> <<ErrorMsg("trend", resp.status, resp.text)>>]
    ELSE IF ~resp.json.valid
    THEN [df |-> None, errors |-> <<ExcMsg("trend", "json")>>]
    ELSE IF resp.json.results = <<>>
    THEN [df |-> DataFrame({"period", "ratio"}, <<>>), errors |-> <<>>]
    ELSE LET df == FrameOfRecords(resp.json.results[1])
         IN  IF "period" \in df.columns
             THEN [df |-> df, errors |-> <<>>]
             \* df['period'] raises KeyError, caught by `except Exception`
             ELSE [df |-> None, errors |-> <<ExcMsg("trend", "KeyError")>>]

\* fetch_blog_search / fetch_shopping_search from the response on
SearchOutcome(resp) ==
    IF resp.kind = "exception" THEN None
    ELSE IF resp.status # 200 THEN None
    ELSE IF ~resp.json.valid THEN None
    ELSE DataFrame(IF resp.json.items = <<>> THEN {} ELSE {"title"}, resp.json.items)

\* the three fetch lines of the script, in order
NextCall_skip(cap) ==
    CASE cap = "trend" -> "shop" [] cap = "blog" -> "shop" [] OTHER -> "render"
NextCall(cap) ==
    CASE cap = "trend" -> "blog" [] cap = "blog" -> "shop" [] OTHER -> "render"

Send(cap) == [cap |-> cap, ev |-> "send"]
Done(cap) == [cap |-> cap, ev |-> "done"]

Panel(cap, df) ==
    IF df # None /\ df.rows # <<>>
    THEN [kind |-> "list", cap |-> cap, n |-> Len(df.rows)]
    ELSE [kind |-> "placeholder", cap |-> cap]

\* the page below the fetches
Render(t, b, s) ==
    IF t # None
    THEN << [kind |-> "chart", cap |-> "trend", n |-> Len(t.rows)],
            Panel("blog", b), Panel("shop", s),
            [kind |-> "summary", cap |-> "trend", n |-> Len(t.rows)] >>
    ELSE << [kind |-> "warning", what |-> "load failed"] >>

LiveInit ==
    /\ secrets \in SecretStores
    /\ environ \in Environs
    /\ CLIENT_ID = NoneStr
    /\ CLIENT_SECRET = NoneStr
    /\ search_keyword = <<>>
    /\ livePc = "idle"
    /\ trend_df = None
    /\ blog_df = None
    /\ shop_df = None
    /\ netlog = <<>>
    /\ bodies = 0
    /\ responses = [c \in Capabilities |-> NoResponse]
    /\ shown = <<>>
    \* the batch script is at rest while the live script is observed
    /\ corpus = EmptyCorpus
    /\ cache = NoCache
    /\ reads = [f \in Files |-> 0]
    /\ runs = 0
    /\ session = {}
    /\ batchPc = "idle"
    /\ loadRan = FALSE
    /\ checkedNow = {}
    /\ data = NoData
    /\ selected_keywords = <<>>
    /\ detail_kw = ""
    /\ page = <<>>
    /\ exc = NoExc

\* A run from its start to its first network request (or to its end): the
\* credentials are resolved, the gate is passed or stops the run, and
\* fetch_search_trend either returns None for a blank keyword or posts.
LiveRerun(kw) ==
    /\ livePc \in {"idle", "done", "stopped"}
    /\ LET creds == get_naver_credentials(secrets, environ) IN
       /\ CLIENT_ID' = creds[1]
       /\ CLIENT_SECRET' = creds[2]
       /\ search_keyword' = kw
       /\ trend_df' = None
       /\ blog_df' = None
       /\ shop_df' = None
       /\ responses' = [c \in Capabilities |-> NoResponse]
       /\ IF CredentialsMissing(creds[1], creds[2])
          THEN /\ shown' = <<[kind |-> "error", what |-> "CredentialsMissing"]>>
               /\ livePc' = "stopped"
               /\ netlog' = <<>>
               /\ bodies' = 0
          ELSE IF kw = <<>>
          THEN /\ shown' = <<[kind |-> "info", what |-> "enter a keyword"]>>
               /\ livePc' = "done"
               /\ netlog' = <<>>
               /\ bodies' = 0
          ELSE IF BlankKeyword(kw)
          THEN /\ shown' = <<>>
               /\ bodies' = 1
               /\ netlog' = <<Send(NextCall("trend"))>>
               /\ livePc' = NextCall("trend")
          ELSE /\ shown' = <<>>
               /\ bodies' = 1
               /\ netlog' = <<Send("trend")>>
               /\ livePc' = "trend"
    /\ UNCHANGED <<secrets, environ>>
    /\ UNCHANGED batchVars

\* what follows the return of the fetch of `cap`: the next fetch is sent,
\* or, after the last one, the page is rendered
Continue(cap, t, b, s, sh) ==
    LET nxt == NextCall(cap) IN
    IF nxt = "render"
    THEN /\ netlog' = Append(netlog, Done(cap))
         /\ bodies' = bodies
         /\ shown' = sh \o Render(t, b, s)
         /\ livePc' = "done"
    ELSE /\ netlog' = Append(Append(netlog, Done(cap)), Send(nxt))
         /\ bodies' = bodies + 1
         /\ shown' = sh
         /\ livePc' = nxt

TrendRespond(resp) ==
    /\ livePc = "trend"
    /\ LET out == TrendOutcome(resp) IN
       /\ trend_df' = out.df
       /\ responses' = [responses EXCEPT !["trend"] = resp]
       /\ Continue("trend", out.df, blog_df, shop_df, shown \o out.errors)
    /\ UNCHANGED <<secrets, environ, CLIENT_ID, CLIENT_SECRET, search_keyword,
                   blog_df, shop_df>>
    /\ UNCHANGED batchVars

BlogRespond(resp) ==
    /\ livePc = "blog"
    /\ LET df == SearchOutcome(resp) IN
       /\ blog_df' = df
       /\ responses' = [responses EXCEPT !["blog"] = resp]
       /\ Continue("blog", trend_df, df, shop_df, shown)
    /\ UNCHANGED <<secrets, environ, CLIENT_ID, CLIENT_SECRET, search_keyword,
                   trend_df, shop_df>>
    /\ UNCHANGED batchVars

ShopRespond(resp) ==
    /\ livePc = "shop"
    /\ LET df == SearchOutcome(resp) IN
       /\ shop_df' = df
       /\ responses' = [responses EXCEPT !["shop"] = resp]
       /\ Continue("shop", trend_df, blog_df, df, shown)
    /\ UNCHANGED <<secrets, environ, CLIENT_ID, CLIENT_SECRET, search_keyword,
                   trend_df, blog_df>>
    /\ UNCHANGED batchVars

LiveNext ==
    \/ \E kw \in Keywords : LiveRerun(kw)
    \/ \E resp \in TrendResponses : TrendRespond(resp)
    \/ \E resp \in SearchResponses : BlogRespond(resp)
    \/ \E resp \in SearchResponses : ShopRespond(resp)


\* ========================================================================
\* Batch mode: src/dashboard.py
\* ========================================================================

EmptyDict == [k \in {} |-> None]
Put(d, k, v) == [x \in (DOMAIN d) \cup {k} |-> IF x = k THEN v ELSE d[x]]

\* One pass of the loop of load_data for keyword number i, then the rest.
\* acc = [ok, trend, blog, shop, read, checked]; read and checked are the
\* files passed to pd.read_csv and to os.path.exists.  The assignment
\* df['period'] = pd.to_datetime(df['period']) raises KeyError when the file
\* has no `period` column; nothing catches it.
RECURSIVE LoadLoop(_, _, _)
LoadLoop(c, i, acc) ==
    IF i > Len(keywords) THEN acc
    ELSE
    LET kw == keywords[i]
        tf == c.trend[kw]
        bf == c.blog[kw]
        sf == c.shop[kw]
    IN
    IF tf.exists /\ "period" \notin tf.columns
    THEN [acc EXCEPT !.ok = FALSE,
                     !.read = @ \cup {<<"trend", kw>>},
                     !.checked = @ \cup {<<"trend", kw>>}]
    ELSE LoadLoop(c, i + 1,
           [ok      |-> TRUE,
            trend   |-> IF tf.exists
                        THEN Put(acc.trend, kw,
                                 DataFrame(tf.columns \cup {"keyword"}, tf.rows))
                        ELSE acc.trend,
            blog    |-> IF bf.exists
                        THEN Put(acc.blog, kw, DataFrame(bf.columns, bf.rows))
                        ELSE acc.blog,
            shop    |-> IF sf.exists
                        THEN Put(acc.shop, kw, DataFrame(sf.columns, sf.rows))
                        ELSE acc.shop,
            read    |-> acc.read \cup {<<k, kw>> : k \in {x \in Kinds : c[x][kw].exists}},
            checked |-> acc.checked \cup {<<k, kw>> : k \in Kinds}])

\* the body of load_data
load_data(c) ==
    LoadLoop(c, 1, [ok |-> TRUE, trend |-> EmptyDict, blog |-> EmptyDict,
                    shop |-> EmptyDict, read |-> {}, checked |-> {}])

\* list(trend_data.keys()): the keywords with a trend file, in list order
RECURSIVE KeysFrom(_, _)
KeysFrom(d, i) ==
    IF i > Len(keywords) THEN <<>>
    ELSE IF keywords[i] \in DOMAIN d
         THEN <<keywords[i]>> \o KeysFrom(d, i + 1)
         ELSE KeysFrom(d, i + 1)

all_keywords(d) == KeysFrom(d.trend, 1)

\* all_keywords[:3]
DefaultSelection(ks) == SubSeq(ks, 1, IF Len(ks) < 3 THEN Len(ks) ELSE 3)

Range(q) == {q[i] : i \in 1..Len(q)}

\* lists of distinct options, in the order the user picked them
Selections(ks) ==
    {q \in SeqsUpTo(Range(ks), Len(ks)) : \A i, j \in 1..Len(q) : q[i] = q[j] => i = j}

\* `if not selected_keywords`
InvalidSelection_never(sel) == FALSE
InvalidSelection(sel) == sel = <<>>

RECURSIVE SumRatio(_)
SumRatio(rows) == IF rows = <<>> THEN 0 ELSE Head(rows).ratio + SumRatio(Tail(rows))

\* strftime('%Y-%m-%d') as the digits of the text
Strftime(d) == <<2, 0, 2, 5, d.month \div 10, d.month % 10, d.day \div 10, d.day % 10>>

\* order of two texts of equal length
RECURSIVE LexLeq(_, _)
LexLeq(a, b) ==
    IF a = <<>> THEN TRUE
    ELSE IF Head(a) < Head(b) THEN TRUE
    ELSE IF Head(a) > Head(b) THEN FALSE
    ELSE LexLeq(Tail(a), Tail(b))

Periods(rows) == {rows[i].period : i \in 1..Len(rows)}
MinDate(rows) == CHOOSE d \in Periods(rows) : \A e \in Periods(rows) : DateLeq(d, e)
MaxDate(rows) == CHOOSE d \in Periods(rows) : \A e \in Periods(rows) : DateLeq(e, d)
MaxRatio(rows) == CHOOSE r \in {rows[i].ratio : i \in 1..Len(rows)} :
                      \A i \in 1..Len(rows) : rows[i].ratio <= r

\* quality_info; Series.min() of no rows is NaT and NaT.strftime raises
QualityRaises(df) == df.rows = <<>>
quality_info(df) ==
    [kind |-> "quality",
     count |-> Len(df.rows),
     missing |-> 0,
     start |-> Strftime(MinDate(df.rows)),
     end |-> Strftime(MaxDate(df.rows)),
     max |-> MaxRatio(df.rows)]

BatchInit ==
    /\ corpus \in Corpora
    /\ cache = NoCache
    /\ reads = [f \in Files |-> 0]
    /\ runs = 0
    /\ session = {}
    /\ batchPc = "idle"
    /\ loadRan = FALSE
    /\ checkedNow = {}
    /\ data = NoData
    /\ selected_keywords = <<>>
    /\ detail_kw = ""
    /\ page = <<>>
    /\ exc = NoExc
    \* the live script is at rest while the batch script is observed
    /\ secrets = [file |-> FALSE, id |-> NoneStr, secret |-> NoneStr]
    /\ environ = [id |-> NoneStr, secret |-> NoneStr]
    /\ CLIENT_ID = NoneStr
    /\ CLIENT_SECRET = NoneStr
    /\ search_keyword = <<>>
    /\ livePc = "idle"
    /\ trend_df = None
    /\ blog_df = None
    /\ shop_df = None
    /\ netlog = <<>>
    /\ bodies = 0
    /\ responses = [c \in Capabilities |-> NoResponse]
    /\ shown = <<>>

\* A run from its start through line 55: load_data is called; a cached
\* result is returned without running the body, otherwise the body runs
\* and its result is cached unless it raised.
BatchRerun ==
    /\ batchPc \in {"idle", "done", "stopped", "crashed"}
    /\ runs < MaxRuns
    /\ runs' = runs + 1
    /\ page' = <<>>
    /\ selected_keywords' = <<>>
    /\ detail_kw' = ""
    /\ IF cache # NoCache
       THEN /\ data' = cache
            /\ loadRan' = FALSE
            /\ checkedNow' = {}
            /\ batchPc' = "select"
            /\ exc' = NoExc
            /\ UNCHANGED <<cache, reads>>
       ELSE LET r == load_data(corpus) IN
            /\ loadRan' = TRUE
            /\ checkedNow' = r.checked
            /\ reads' = [f \in Files |-> IF f \in r.read THEN reads[f] + 1 ELSE reads[f]]
            /\ IF r.ok
               THEN /\ cache' = [trend |-> r.trend, blog |-> r.blog, shop |-> r.shop]
                    /\ data' = cache'
                    /\ batchPc' = "select"
                    /\ exc' = NoExc
               ELSE /\ cache' = NoCache
                    /\ data' = NoData
                    /\ batchPc' = "crashed"
                    /\ exc' = "KeyError"
    /\ UNCHANGED <<corpus, session>>
    /\ UNCHANGED liveVars

\* columns of pd.concat of the selected frames
CombinedColumns(d, sel) == UNION {d.trend[kw].columns : kw \in Range(sel)}

\* Lines 59-142: the multiselect, the selection check and the comparison
\* tab.  The first time the widget is rendered it holds its default.
Select(sel) ==
    /\ batchPc = "select"
    /\ sel \in Selections(all_keywords(data))
    /\ "multiselect" \notin session => sel = DefaultSelection(all_keywords(data))
    /\ session' = session \cup {"multiselect"}
    /\ selected_keywords' = sel
    /\ IF InvalidSelection(sel)
       THEN /\ page' = <<[kind |-> "error", what |-> "InvalidSelection"]>>
            /\ batchPc' = "stopped"
            /\ exc' = NoExc
       ELSE IF sel = <<>>
       THEN \* pd.concat([]) raises
            /\ page' = page
            /\ batchPc' = "crashed"
            /\ exc' = "ValueError"
       ELSE IF "ratio" \notin CombinedColumns(data, sel)
       THEN \* px.line(..., y='ratio') raises
            /\ page' = page
            /\ batchPc' = "crashed"
            /\ exc' = "ValueError"
       ELSE /\ page' = <<[kind |-> "tab1",
                          totals |-> [kw \in Range(sel) |->
                                        IF "ratio" \in data.trend[kw].columns
                                        THEN SumRatio(data.trend[kw].rows) ELSE 0]]>>
            /\ batchPc' = "tab2"
            /\ exc' = NoExc
    /\ UNCHANGED <<corpus, cache, reads, runs, loadRan, checkedNow, data, detail_kw>>
    /\ UNCHANGED liveVars

SearchPanel(kind, d, kw) ==
    IF kw \in DOMAIN d
    THEN [kind |-> "table", what |-> kind, n |-> Len(d[kw].rows)]
    ELSE [kind |-> "placeholder", what |-> kind]

\* Lines 148-200: the selectbox, the detail tab and the quality report
Detail(kw) ==
    /\ batchPc = "tab2"
    /\ kw \in Range(selected_keywords)
    /\ "selectbox" \notin session => kw = selected_keywords[1]
    /\ session' = session \cup {"selectbox"}
    /\ detail_kw' = kw
    /\ LET kw_trend == data.trend[kw] IN
       IF "ratio" \notin kw_trend.columns
       THEN \* groupby('month')['ratio'] raises
            /\ page' = page
            /\ batchPc' = "crashed"
            /\ exc' = "KeyError"
       ELSE IF QualityRaises(kw_trend)
       THEN /\ page' = page \o <<[kind |-> "monthly", n |-> 0],
                                 SearchPanel("blog", data.blog, kw),
                                 SearchPanel("shop", data.shop, kw)>>
            /\ batchPc' = "crashed"
            /\ exc' = "ValueError"
       ELSE /\ page' = page \o <<[kind |-> "monthly", n |-> Len(kw_trend.rows)],
                                 SearchPanel("blog", data.blog, kw),
                                 SearchPanel("shop", data.shop, kw),
                                 quality_info(kw_trend)>>
            /\ batchPc' = "tab3"
            /\ exc' = NoExc
    /\ UNCHANGED <<corpus, cache, reads, runs, loadRan, checkedNow, data,
                   selected_keywords>>
    /\ UNCHANGED liveVars

\* Lines 206-218: the radio, the raw table and the download button
Raw(kw) ==
    /\ batchPc = "tab3"
    /\ kw \in Range(selected_keywords)
    /\ "radio" \notin session => kw = selected_keywords[1]
    /\ session' = session \cup {"radio"}
    /\ page' = Append(page, [kind |-> "raw", kw |-> kw, n |-> Len(data.trend[kw].rows)])
    /\ batchPc' = "done"
    /\ UNCHANGED <<corpus, cache, reads, runs, loadRan, checkedNow, data,
                   selected_keywords, detail_kw, exc>>
    /\ UNCHANGED liveVars

BatchNext ==
    \/ BatchRerun
    \/ \E sel \in SeqsUpTo(KwSet, Len(keywords)) : Select(sel)
    \/ \E kw \in KwSet : Detail(kw)
    \/ \E kw \in KwSet : Raw(kw)

LiveSpec  == LiveInit /\ [][LiveNext]_vars
BatchSpec == BatchInit /\ [][BatchNext]_vars

\* ========================================================================
\* Properties of the live script (checked under LiveSpec)
\* ========================================================================
CredsResolvedMissing == Falsy(CLIENT_ID) \/ Falsy(CLIENT_SECRET)

LiveRunStarted == livePc # "idle"

IsPrefix(a, b) == Len(a) <= Len(b) /\ a = SubSeq(b, 1, Len(a))

\* C1: in every run in which the client id or the client secret is
\* unavailable, the run stops with the CredentialsMissing error and has
\* issued no network request and built no request body, whatever the keyword.
C1_CredentialGate ==
    (LiveRunStarted /\ CredsResolvedMissing) =>
        /\ livePc = "stopped"
        /\ shown = <<[kind |-> "error", what |-> "CredentialsMissing"]>>
        /\ netlog = <<>>
        /\ bodies = 0

\* a run stopped at the gate with only the secret missing and a real keyword
C1_Witness ==
    /\ livePc = "stopped"
    /\ ~Falsy(CLIENT_ID)
    /\ Falsy(CLIENT_SECRET)
    /\ ~BlankKeyword(search_keyword)

\* C2: for every empty or whitespace-only keyword the run performs no
\* network call at all and presents no failure (the outcome is Empty).
C2_BlankKeywordNoNetwork ==
    (LiveRunStarted /\ ~CredsResolvedMissing /\ BlankKeyword(search_keyword)) =>
        /\ netlog = <<>>
        /\ \A i \in 1..Len(shown) : shown[i].kind \notin {"error", "warning"}

ZeroRows(json) == json.results = <<>> \/ json.results[1] = <<>>

\* C3: a status-200 trend response with zero result rows (no results, or a
\* first result whose data has no rows) makes fetch_search_trend return an
\* empty frame (Empty), not None (Failure).
C3_ZeroRowsIsEmpty ==
    LET r == responses["trend"] IN
    (r.kind = "http" /\ r.status = 200 /\ r.json.valid /\ ZeroRows(r.json)) =>
        (trend_df # None /\ trend_df.rows = <<>>)

\* C4: for each capability a response whose status is not 2xx gives a
\* failure that carries the status code and the body, and a transport
\* exception gives a failure that carries the exception description
\* (stated for the runs of a non-blank keyword, which make all three calls).
C4_FailureCarriesCause ==
    ~BlankKeyword(search_keyword) =>
    \A cap \in Capabilities :
        LET r == responses[cap] IN
        /\ (r.kind = "http" /\ r.status \notin 200..299) =>
               ErrorMsg(cap, r.status, r.text) \in Range(shown)
        /\ r.kind = "exception" => ExcMsg(cap, r.desc) \in Range(shown)

Fetched(cap) == CASE cap = "trend" -> trend_df [] cap = "blog" -> blog_df
                  [] OTHER -> shop_df

Failed(cap) == responses[cap] # NoResponse /\ Fetched(cap) = None

\* C5: when a run has finished, every capability whose fetch failed has a
\* user-facing error on the page, its view is not rendered, and it is not
\* shown as the "no data" placeholder of an empty result (stated for the
\* runs of a non-blank keyword, which make all three calls).
C5_FailureIsSurfaced ==
    (livePc = "done" /\ ~BlankKeyword(search_keyword)) =>
        \A cap \in Capabilities :
            Failed(cap) =>
                /\ \E i \in 1..Len(shown) :
                       shown[i].kind = "error" /\ shown[i].cap = cap
                /\ \A i \in 1..Len(shown) :
                       shown[i].kind \in {"placeholder", "list", "chart", "summary"}
                           => shown[i].cap # cap

FullLog == <<Send("trend"), Done("trend"), Send("blog"), Done("blog"),
             Send("shop"), Done("shop")>>

\* C10: in a run with credentials and a non-blank keyword the network
\* events are, in this order and once each: the trend request and its end,
\* the blog request and its end, the shopping request and its end; a request
\* is sent only after the one before it has returned, failed or not.
C10_SequentialOnce ==
    (LiveRunStarted /\ ~CredsResolvedMissing /\ ~BlankKeyword(search_keyword)) =>
        /\ netlog # <<>>
        /\ IsPrefix(netlog, FullLog)
        /\ livePc \in Capabilities => netlog[Len(netlog)] = Send(livePc)
        /\ livePc = "done" => netlog = FullLog

\* a finished run whose trend call raised and whose blog call returned 500
C10_Witness ==
    /\ livePc = "done"
    /\ netlog = FullLog
    /\ responses["trend"].kind = "exception"
    /\ responses["blog"].kind = "http" /\ responses["blog"].status = 500

\* ========================================================================
\* Properties of the batch script (checked under BatchSpec)
\* ========================================================================
InvalidSelectionPage == <<[kind |-> "error", what |-> "InvalidSelection"]>>

\* the run has gone through the selection check of line 65
SelectionChecked == batchPc \notin {"idle", "select"} /\ data # NoData

\* C6 as stated: a run that ends in InvalidSelection has not run load_data
\* and has checked no corpus file.
C6_NoLoadBeforeInvalidSelection ==
    batchPc = "stopped" => (~loadRan /\ checkedNow = {})

\* C6 as amended: a run whose selection is empty ends in InvalidSelection
\* with nothing but that error on the page (no view is built); load_data
\* was called before the check, and its body ran, testing every corpus
\* file, exactly when the cache was cold.
C6_InvalidSelectionBeforeViews ==
    (SelectionChecked /\ selected_keywords = <<>>) =>
        /\ batchPc = "stopped"
        /\ page = InvalidSelectionPage
        /\ exc = NoExc
        /\ loadRan => checkedNow = Files
        /\ ~loadRan => (checkedNow = {} /\ runs > 1)

\* the user cleared the selection of a corpus that has trend files; the
\* cached load is reused
C6_Witness ==
    /\ batchPc = "stopped"
    /\ ~loadRan
    /\ all_keywords(data) # <<>>

Defective(kw) ==
    /\ corpus.trend[kw].exists
    /\ ~({"period", "ratio"} \subseteq corpus.trend[kw].columns)

Sound(kw) ==
    /\ corpus.trend[kw].exists
    /\ {"period", "ratio"} \subseteq corpus.trend[kw].columns

\* C7: when a trend file lacks `period` or `ratio`, no exception escapes:
\* the run shows a SchemaError message, and the series of the other
\* keywords are loaded.
C7_SchemaErrorIsTyped ==
    (batchPc # "idle" /\ \E kw \in KwSet : Defective(kw)) =>
        /\ exc = NoExc
        /\ batchPc # "crashed"
        /\ \A kw \in KwSet : Sound(kw) => (data # NoData /\ kw \in DOMAIN data.trend)

\* C8: no corpus file is read from storage more than once in the process.
C8_AtMostOneRead == \A f \in Files : reads[f] <= 1

Absent == <<>>

\* the detail stage (lines 148-200) has run for detail_kw
DetailRan == detail_kw # ""

\* C9: for the series of the detail view (a trend file with both columns)
\* the quality report is produced without an exception; its start date is
\* not after its end date when the series has rows, and both are absent
\* when it has none.
C9_QualityReport ==
    (DetailRan /\ Sound(detail_kw)) =>
        /\ exc = NoExc
        /\ \E i \in 1..Len(page) :
              /\ page[i].kind = "quality"
              /\ IF data.trend[detail_kw].rows # <<>>
                 THEN LexLeq(page[i].start, page[i].end)
                 ELSE page[i].start = Absent /\ page[i].end = Absent

====
